---- MODULE Spec2Model ----
(***************************************************************************)
(* Model of rfc882::parseDateAndTimeSpec and the comparison operators of   *)
(* RFC882DateTime.                                                         *)
(*                                                                         *)
(* A std::string is a sequence of one-character strings.  A 64-bit signed  *)
(* integer (std::time_t, the rep of system_clock::duration, which counts   *)
(* nanoseconds in this build) is a tuple of four 16-bit limbs, least       *)
(* significant first, in two's complement, so that the arithmetic keeps    *)
(* its width.  An int is a TLA+ integer: no int of the program leaves the  *)
(* 32-bit range on the inputs the grammar admits.                          *)
(***************************************************************************)
EXTENDS Integers, Sequences, FiniteSets, TLC

(***************************************************************************)
(* Characters and character classes of the regular expression.             *)
(***************************************************************************)
DigitChars == <<"0", "1", "2", "3", "4", "5", "6", "7", "8", "9">>

\* \d of the ECMAScript grammar
IsDigit(c) == \E i \in 1..10 : DigitChars[i] = c

DigitVal(c) == (CHOOSE i \in 1..10 : DigitChars[i] = c) - 1

\* the vertical tab, 0x0B, which has no escape in a TLA+ string: the literal
\* holds the character itself
VerticalTab == ""

\* \s of the ECMAScript grammar: the characters of isspace in the C locale
IsSpace(c) == c \in {" ", "\t", "\n", VerticalTab, "\f", "\r"}

DayOfWeekNames ==
    << <<"M","o","n">>, <<"T","u","e">>, <<"W","e","d">>, <<"T","h","u">>,
       <<"F","r","i">>, <<"S","a","t">>, <<"S","u","n">> >>

\* the alternatives of group 1: a day name with its trailing comma
DayOfWeekLits == {Append(DayOfWeekNames[i], ",") : i \in 1..7}

\* the months array of parseMonth, which is also the alternation of group 3
months ==
    << <<"J","a","n">>, <<"F","e","b">>, <<"M","a","r">>, <<"A","p","r">>,
       <<"M","a","y">>, <<"J","u","n">>, <<"J","u","l">>, <<"A","u","g">>,
       <<"S","e","p">>, <<"O","c","t">>, <<"N","o","v">>, <<"D","e","c">> >>

MonthLits == {months[i] : i \in 1..12}

\* the alternatives of group 9
NamedZones ==
    { <<"U","T">>, <<"G","M","T">>, <<"E","S","T">>, <<"E","D","T">>,
      <<"C","S","T">>, <<"C","D","T">>, <<"M","S","T">>, <<"M","D","T">>,
      <<"P","S","T">>, <<"P","D","T">>, <<"Z">>, <<"A">>, <<"M">>, <<"N">>,
      <<"Y">> }

\* repetition counts of the regular expression
MinDayDigits == 1
MaxDayDigits == 2
MinYearDigits == 2
MaxYearDigits == 4
TimeDigits == 2
DiffDigits == 4

(***************************************************************************)
(* The regular expression, matched against the whole string.               *)
(***************************************************************************)
\* s has the literal lit at position i
HasAt(s, i, lit) ==
    /\ i + Len(lit) - 1 <= Len(s)
    /\ SubSeq(s, i, i + Len(lit) - 1) = lit

\* \s* : the first position at or after i that holds no whitespace
RECURSIVE SkipSpaces(_, _)
SkipSpaces(s, i) ==
    IF i <= Len(s) /\ IsSpace(s[i]) THEN SkipSpaces(s, i + 1) ELSE i

\* \d{..,max} : the number of digits at position i, at most max
RECURSIVE CountDigits(_, _, _)
CountDigits(s, i, max) ==
    IF max > 0 /\ i <= Len(s) /\ IsDigit(s[i])
    THEN 1 + CountDigits(s, i + 1, max - 1)
    ELSE 0

AllDigits(s) == \A i \in 1..Len(s) : IsDigit(s[i])

\* ((\+|-)(\d{4})) : group 10
IsLocalDifferential(z) ==
    /\ Len(z) = 1 + DiffDigits
    /\ z[1] \in {"+", "-"}
    /\ AllDigits(Tail(z))

\* group 8 followed by $ : all that remains is one zone
MatchZone_Prefix(z) ==
    \/ \E n \in NamedZones : HasAt(z, 1, n)
    \/ Len(z) >= 1 + DiffDigits /\ IsLocalDifferential(SubSeq(z, 1, 1 + DiffDigits))

MatchZone(z) == z \in NamedZones \/ IsLocalDifferential(z)

NoMatch == [matched |-> FALSE]

\* position of the day: after the optional group 1 and \s*
RegexDayPos(s) ==
    SkipSpaces(s, IF \E d \in DayOfWeekLits : HasAt(s, 1, d) THEN 5 ELSE 1)

\* Each \s+ and each digit run is delimited by a character of another class,
\* and the optional groups start with a character nothing after them can
\* start with, so the backtracking matcher has one way to match: the greedy
\* one followed here.
RegexMatch(s) ==
    LET g1  == \E d \in DayOfWeekLits : HasAt(s, 1, d)
        p2  == RegexDayPos(s)
        n2  == CountDigits(s, p2, MaxDayDigits)
        e2  == p2 + n2
        p3  == SkipSpaces(s, e2)
        e3  == p3 + 3
        p4  == SkipSpaces(s, e3)
        n4  == CountDigits(s, p4, MaxYearDigits)
        e4  == p4 + n4
        p5  == SkipSpaces(s, e4)
        e5  == p5 + TimeDigits
        p6  == e5 + 1
        e6  == p6 + TimeDigits
        g7  == /\ HasAt(s, e6, <<":">>)
               /\ CountDigits(s, e6 + 1, TimeDigits) = TimeDigits
        e7  == IF g7 THEN e6 + 1 + TimeDigits ELSE e6
        p8  == SkipSpaces(s, e7)
        ok  == /\ n2 >= MinDayDigits
               /\ p3 > e2
               /\ \E m \in MonthLits : HasAt(s, p3, m)
               /\ p4 > e3
               /\ n4 >= MinYearDigits
               /\ p5 > e4
               /\ CountDigits(s, p5, TimeDigits) = TimeDigits
               /\ HasAt(s, e5, <<":">>)
               /\ CountDigits(s, p6, TimeDigits) = TimeDigits
               /\ p8 > e7
               /\ MatchZone(SubSeq(s, p8, Len(s)))
    IN  IF ok
        THEN [matched |-> TRUE,
              g1matched |-> g1,
              g1 |-> IF g1 THEN SubSeq(s, 1, 4) ELSE <<>>,
              g2 |-> SubSeq(s, p2, e2 - 1),
              g3 |-> SubSeq(s, p3, e3 - 1),
              g4 |-> SubSeq(s, p4, e4 - 1),
              g5 |-> SubSeq(s, p5, e5 - 1),
              g6 |-> SubSeq(s, p6, e6 - 1),
              g7matched |-> g7,
              g7 |-> IF g7 THEN SubSeq(s, e6, e7 - 1) ELSE <<>>,
              g8 |-> SubSeq(s, p8, Len(s))]
        ELSE NoMatch

(***************************************************************************)
(* std::stoi on the tokens: leading whitespace, an optional sign, then the *)
(* digits up to the first other character, base 10.                        *)
(***************************************************************************)
RECURSIVE StoiDigits(_, _, _)
StoiDigits(s, i, acc) ==
    IF i <= Len(s) /\ IsDigit(s[i])
    THEN StoiDigits(s, i + 1, acc * 10 + DigitVal(s[i]))
    ELSE acc

Stoi(s) ==
    LET i == SkipSpaces(s, 1)
        signed == i <= Len(s) /\ s[i] \in {"+", "-"}
        v == StoiDigits(s, IF signed THEN i + 1 ELSE i, 0)
    IN  IF signed /\ s[i] = "-" THEN 0 - v ELSE v

Abs(a) == IF a >= 0 THEN a ELSE 0 - a

\* integer division of C++, which truncates toward zero
CDiv(a, b) ==
    IF (a >= 0) = (b >= 0) THEN Abs(a) \div Abs(b) ELSE 0 - (Abs(a) \div Abs(b))

\* remainder of C++, which has the sign of the dividend
CMod(a, b) == a - CDiv(a, b) * b

(***************************************************************************)
(* Token decoding.                                                         *)
(***************************************************************************)
parseMonth(month) ==
    IF \E i \in 1..12 : months[i] = month
    THEN CHOOSE i \in 1..12 : months[i] = month
    ELSE 0

\* the result counts minutes
parseLocalDifferential_SignLost(localDifferential) ==
    LET diff == Abs(Stoi(localDifferential))
        hours == CDiv(diff, 100)
        minutes == diff - (hours * 100)
    IN  hours * 60 + minutes

parseLocalDifferential(localDifferential) ==
    LET diff == Stoi(localDifferential)
        hours == CDiv(diff, 100)
        minutes == diff - (hours * 100)
    IN  hours * 60 + minutes

\* the result counts minutes
parseTimeZone(timezone) ==
    IF timezone # <<>> /\ (Head(timezone) = "+" \/ Head(timezone) = "-")
    THEN parseLocalDifferential(timezone)
    ELSE CASE timezone = <<"E","S","T">> -> (0 - 5) * 60
           [] timezone = <<"E","D","T">> -> (0 - 4) * 60
           [] timezone = <<"C","S","T">> -> (0 - 6) * 60
           [] timezone = <<"C","D","T">> -> (0 - 5) * 60
           [] timezone = <<"M","S","T">> -> (0 - 7) * 60
           [] timezone = <<"M","D","T">> -> (0 - 6) * 60
           [] timezone = <<"P","S","T">> -> (0 - 8) * 60
           [] timezone = <<"P","D","T">> -> (0 - 7) * 60
           [] timezone = <<"A">> -> (0 - 1) * 60
           [] timezone = <<"M">> -> (0 - 12) * 60
           [] timezone = <<"N">> -> 1 * 60
           [] timezone = <<"Y">> -> 12 * 60
           [] OTHER -> 0

(***************************************************************************)
(* Validation.                                                             *)
(***************************************************************************)
isValidDate_No31Check(date) ==
    IF date.day < 1 \/ date.day > 31 \/ date.month < 1 \/ date.month > 12
    THEN FALSE
    ELSE LET isLeapYear ==
                 /\ CMod(date.year, 4) = 0
                 /\ \/ CMod(date.year, 100) # 0
                    \/ CMod(date.year, 100) = 0 /\ CMod(date.year, 400) = 0
             febDays == IF isLeapYear THEN 29 ELSE 28
         IN  IF date.day < febDays THEN TRUE
             ELSE date.month # 2

isValidDate(date) ==
    IF date.day < 1 \/ date.day > 31 \/ date.month < 1 \/ date.month > 12
    THEN FALSE
    ELSE LET isLeapYear ==
                 /\ CMod(date.year, 4) = 0
                 /\ \/ CMod(date.year, 100) # 0
                    \/ CMod(date.year, 100) = 0 /\ CMod(date.year, 400) = 0
             febDays == IF isLeapYear THEN 29 ELSE 28
         IN  IF date.day < febDays THEN TRUE
             ELSE IF date.day = 31
                  THEN date.month \notin {2, 4, 6, 9, 11}
                  ELSE date.month # 2

isValidTime(date) ==
    /\ date.hour >= 0 /\ date.hour <= 23
    /\ date.minute >= 0 /\ date.minute <= 59
    /\ date.second >= 0 /\ date.second <= 59

(***************************************************************************)
(* days_from_civil<int>.  m and d are unsigned: for m > 2 the int -3       *)
(* converts to 2^32 - 3 and the sum wraps to m - 3.  Nothing else wraps    *)
(* while y stays within the range the function documents.                  *)
(***************************************************************************)
dfc_y(y, m) == y - (IF m <= 2 THEN 1 ELSE 0)

dfc_era_Truncating(y, m) == CDiv(dfc_y(y, m), 400)

dfc_era(y, m) ==
    CDiv(IF dfc_y(y, m) >= 0 THEN dfc_y(y, m) ELSE dfc_y(y, m) - 399, 400)

dfc_yoe(y, m) == dfc_y(y, m) - dfc_era(y, m) * 400

dfc_doy(m, d) == (153 * (IF m > 2 THEN m - 3 ELSE m + 9) + 2) \div 5 + d - 1

dfc_doe(y, m, d) ==
    dfc_yoe(y, m) * 365 + dfc_yoe(y, m) \div 4 - dfc_yoe(y, m) \div 100 + dfc_doy(m, d)

days_from_civil(y, m, d) == dfc_era(y, m) * 146097 + dfc_doe(y, m, d) - 719468

(***************************************************************************)
(* 64-bit two's complement arithmetic on four 16-bit limbs.                *)
(***************************************************************************)
LimbBase == 65536

\* the 64-bit value of an int n
I64(n) ==
    IF n >= 0
    THEN <<n % LimbBase, n \div LimbBase, 0, 0>>
    ELSE LET k == (0 - n) - 1
         IN  <<LimbBase - 1 - (k % LimbBase), LimbBase - 1 - (k \div LimbBase),
               LimbBase - 1, LimbBase - 1>>

\* x + y modulo 2^64
I64Add(x, y) ==
    LET s1 == x[1] + y[1]
        s2 == x[2] + y[2] + s1 \div LimbBase
        s3 == x[3] + y[3] + s2 \div LimbBase
        s4 == x[4] + y[4] + s3 \div LimbBase
    IN  <<s1 % LimbBase, s2 % LimbBase, s3 % LimbBase, s4 % LimbBase>>

\* -x modulo 2^64
I64Neg(x) ==
    I64Add(<<LimbBase - 1 - x[1], LimbBase - 1 - x[2],
             LimbBase - 1 - x[3], LimbBase - 1 - x[4]>>, I64(1))

\* x - y modulo 2^64
I64Sub(x, y) == I64Add(x, I64Neg(y))

\* x * c modulo 2^64, for 0 <= c <= 1000
I64MulSmall(x, c) ==
    LET s1 == x[1] * c
        s2 == x[2] * c + s1 \div LimbBase
        s3 == x[3] * c + s2 \div LimbBase
        s4 == x[4] * c + s3 \div LimbBase
    IN  <<s1 % LimbBase, s2 % LimbBase, s3 % LimbBase, s4 % LimbBase>>

I64IsNeg(x) == x[4] >= LimbBase \div 2

\* x < y as signed 64-bit values
I64Less(x, y) ==
    IF I64IsNeg(x) # I64IsNeg(y) THEN I64IsNeg(x)
    ELSE \E i \in 1..4 : /\ x[i] < y[i]
                         /\ \A j \in (i + 1)..4 : x[j] = y[j]

(***************************************************************************)
(* The duration conversions of std::chrono: system_clock::duration counts  *)
(* nanoseconds in a 64-bit signed rep, and a conversion to it multiplies   *)
(* in that rep.                                                            *)
(***************************************************************************)
\* seconds to nanoseconds: * 10^9
SecondsToClock(x) == I64MulSmall(I64MulSmall(I64MulSmall(x, 1000), 1000), 1000)

\* std::chrono::minutes to nanoseconds: * 60 * 10^9
MinutesToClock(x) == SecondsToClock(I64MulSmall(x, 60))

\* system_clock::from_time_t
from_time_t(t) == SecondsToClock(t)

generateUTCTime(date) ==
    LET daysFromEpoch == days_from_civil(date.year, date.month, date.day)
        hours == I64Add(I64MulSmall(I64(daysFromEpoch), 24), I64(date.hour))
        mins == I64Add(I64MulSmall(hours, 60), I64(date.minute))
        localizedTime == I64Add(I64MulSmall(mins, 60), I64(date.second))
    IN  I64Sub(from_time_t(localizedTime),
               MinutesToClock(I64(date.timeZoneDifferential)))

(***************************************************************************)
(* parseDateAndTimeSpec: the std::optional it returns.                     *)
(***************************************************************************)
Absent == [present |-> FALSE]

\* the tokens and the decoded fields of a match, before validation
DecodeMatch(stamp, results) ==
    LET year == Stoi(results.g4)
        second == IF results.g7matched THEN Tail(results.g7) ELSE <<>>
    IN  [stamp |-> stamp,
         tokens |-> [dayOfWeek |-> IF results.g1matched
                                   THEN SubSeq(results.g1, 1, Len(results.g1) - 1)
                                   ELSE <<>>,
                     day |-> results.g2,
                     month |-> results.g3,
                     year |-> results.g4,
                     hour |-> results.g5,
                     minute |-> results.g6,
                     second |-> second,
                     timeZone |-> results.g8],
         dateTime |-> [day |-> Stoi(results.g2),
                       month |-> parseMonth(results.g3),
                       year |-> IF year < 100 THEN year + 2000 ELSE year,
                       hour |-> Stoi(results.g5),
                       minute |-> Stoi(results.g6),
                       second |-> IF Len(second) # 0 THEN Stoi(second) ELSE 0,
                       timeZoneDifferential |-> parseTimeZone(results.g8)]]

parseDateAndTimeSpec(stamp) ==
    LET results == RegexMatch(stamp)
    IN  IF results.matched
        THEN LET date == DecodeMatch(stamp, results)
             IN  IF ~isValidDate(date.dateTime) \/ ~isValidTime(date.dateTime)
                 THEN Absent
                 ELSE [present |-> TRUE,
                       stamp |-> date.stamp,
                       time |-> generateUTCTime(date.dateTime),
                       tokens |-> date.tokens,
                       dateTime |-> date.dateTime]
        ELSE Absent

(***************************************************************************)
(* The program: the sample program of the README parses two time stamps    *)
(* and compares the results.  src records, for each stamp, the pieces it   *)
(* was written from; the program never reads it.                           *)
(***************************************************************************)
VARIABLES pc, src, stamp, parsed, cmp, civil, days

vars == <<pc, src, stamp, parsed, cmp, civil, days>>

\* the text of a stamp written from its pieces
Text(p) ==
    p.pre \o p.dow \o p.sep0 \o p.day \o p.sep1 \o p.month \o p.sep2 \o p.year
    \o p.sep3 \o p.hour \o p.colon \o p.minute \o p.sec \o p.sep4 \o p.zone
    \o p.post

Fmt2(n) == <<DigitChars[((n \div 10) % 10) + 1], DigitChars[(n % 10) + 1]>>

Fmt4(n) == Fmt2(n \div 100) \o Fmt2(n % 100)

\* a stamp in the plain form: single spaces, no day of week
Plain(day, month, year, hour, minute, sec, zone) ==
    [pre |-> <<>>, dow |-> <<>>, sep0 |-> <<>>, day |-> day, sep1 |-> <<" ">>,
     month |-> month, sep2 |-> <<" ">>, year |-> year, sep3 |-> <<" ">>,
     hour |-> hour, colon |-> <<":">>, minute |-> minute, sec |-> sec,
     sep4 |-> <<" ">>, zone |-> zone, post |-> <<>>]

\* rfc882TimeStamp1 of the sample program: "23 Nov 20 09:34:03 -0500"
SampleStamp1 ==
    Plain(Fmt2(23), months[11], Fmt2(20), Fmt2(9), Fmt2(34),
          <<":">> \o Fmt2(3), <<"-">> \o Fmt4(500))

\* rfc882TimeStamp2 of the sample program: "Tue, 7 Oct 2014 10:10:05 PST"
SampleStamp2 ==
    [Plain(<<"7">>, months[10], Fmt4(2014), Fmt2(10), Fmt2(10),
           <<":">> \o Fmt2(5), <<"P","S","T">>)
     EXCEPT !.dow = <<"T","u","e",",">>, !.sep0 = <<" ">>]

NotCompared == [compared |-> FALSE]

NotCalled == [called |-> FALSE]

Epoch == [y |-> 1970, m |-> 1, d |-> 1]

\* the state in which main starts with the stamps written from p1 and p2
MainStarts(p1, p2) ==
    /\ pc = "parse1"
    /\ src = <<p1, p2>>
    /\ stamp = <<Text(p1), Text(p2)>>
    /\ parsed = <<Absent, Absent>>
    /\ cmp = NotCompared
    /\ civil = Epoch
    /\ days = NotCalled

\* auto time1 = rfc882::parseDateAndTimeSpec(rfc882TimeStamp1);
Parse1 ==
    /\ pc = "parse1"
    /\ parsed' = [parsed EXCEPT ![1] = parseDateAndTimeSpec(stamp[1])]
    /\ pc' = "parse2"
    /\ UNCHANGED <<src, stamp, cmp, civil, days>>

\* auto time2 = rfc882::parseDateAndTimeSpec(rfc882TimeStamp2);
Parse2 ==
    /\ pc = "parse2"
    /\ parsed' = [parsed EXCEPT ![2] = parseDateAndTimeSpec(stamp[2])]
    /\ pc' = "compare"
    /\ UNCHANGED <<src, stamp, cmp, civil, days>>

\* if(time1 && time2) { ... the comparison operators ... }
Compare ==
    /\ pc = "compare"
    /\ cmp' = IF parsed[1].present /\ parsed[2].present
              THEN LET x == parsed[1].time
                       y == parsed[2].time
                   IN  [compared |-> TRUE,
                        lt |-> I64Less(x, y),
                        le |-> ~I64Less(y, x),
                        gt |-> I64Less(y, x),
                        ge |-> ~I64Less(x, y),
                        eq |-> x = y]
              ELSE NotCompared
    /\ pc' = "done"
    /\ UNCHANGED <<src, stamp, parsed, civil, days>>

Next == Parse1 \/ Parse2 \/ Compare

\* the sample program on its two stamps, in either order
Init ==
    \E p1, p2 \in {SampleStamp1, SampleStamp2} : MainStarts(p1, p2)

Spec == Init /\ [][Next]_vars

(***************************************************************************)
(* days_from_civil called on its own.                                      *)
(***************************************************************************)
CallDaysFromCivil ==
    /\ pc = "days"
    /\ days' = [called |-> TRUE,
                value |-> days_from_civil(civil.y, civil.m, civil.d),
                era |-> dfc_era(civil.y, civil.m),
                yoe |-> dfc_yoe(civil.y, civil.m),
                doy |-> dfc_doy(civil.m, civil.d),
                doe |-> dfc_doe(civil.y, civil.m, civil.d)]
    /\ pc' = "done"
    /\ UNCHANGED <<src, stamp, parsed, cmp, civil>>

NextDays == CallDaysFromCivil

(***************************************************************************)
(* The proleptic Gregorian calendar, as the claims below refer to it.      *)
(***************************************************************************)
RefIsLeap(y) == y % 4 = 0 /\ (y % 100 # 0 \/ y % 400 = 0)

RefDaysIn(m, y) ==
    IF m = 2 THEN (IF RefIsLeap(y) THEN 29 ELSE 28)
    ELSE IF m \in {4, 6, 9, 11} THEN 30 ELSE 31

RefIsDate(c) == c.m \in 1..12 /\ c.d \in 1..RefDaysIn(c.m, c.y)

RefNextDay(c) ==
    IF c.d < RefDaysIn(c.m, c.y) THEN [c EXCEPT !.d = c.d + 1]
    ELSE IF c.m < 12 THEN [c EXCEPT !.m = c.m + 1, !.d = 1]
    ELSE [y |-> c.y + 1, m |-> 1, d |-> 1]

\* the leap years before year y, counted from year 1 (negative before it)
RefLeapsBefore(y) == ((y - 1) \div 4) - ((y - 1) \div 100) + ((y - 1) \div 400)

RECURSIVE RefDaysBeforeMonth(_, _)
RefDaysBeforeMonth(m, y) ==
    IF m = 1 THEN 0 ELSE RefDaysBeforeMonth(m - 1, y) + RefDaysIn(m - 1, y)

\* the days from 1970-01-01 to the date c, by counting years and leap days
RefDaysSinceEpoch(c) ==
    365 * (c.y - 1970) + (RefLeapsBefore(c.y) - RefLeapsBefore(1970))
    + RefDaysBeforeMonth(c.m, c.y) + (c.d - 1)

(***************************************************************************)
(* days_from_civil on every date of a range of years.                      *)
(***************************************************************************)
DfcYearFirst == 0 - 401
DfcYearLast == 2001

InitDays ==
    /\ pc = "days"
    /\ civil \in {c \in [y : DfcYearFirst..DfcYearLast, m : 1..12, d : 1..31] :
                    RefIsDate(c)}
    /\ src = <<SampleStamp1, SampleStamp2>>
    /\ stamp = <<Text(SampleStamp1), Text(SampleStamp2)>>
    /\ parsed = <<Absent, Absent>>
    /\ cmp = NotCompared
    /\ days = NotCalled

SpecDays == InitDays /\ [][NextDays]_vars

\* C10: days_from_civil returns the number of days from 1970-01-01 to the
\* date, 0 for 1970-01-01 and one more for the next calendar day; era is the
\* floor of the shifted year divided by 400, and yoe, doy and doe stay in
\* 0..399, 0..365 and 0..146096.
C10_DaysFromCivilExact ==
    days.called =>
        /\ days.value = RefDaysSinceEpoch(civil)
        /\ civil = Epoch => days.value = 0
        /\ LET n == RefNextDay(civil)
           IN  days_from_civil(n.y, n.m, n.d) = days.value + 1
        /\ days.era = (civil.y - (IF civil.m <= 2 THEN 1 ELSE 0)) \div 400
        /\ days.yoe \in 0..399
        /\ days.doy \in 0..365
        /\ days.doe \in 0..146096

\* a date of a negative year, in an era below zero, has been converted
C10_Witness ==
    /\ days.called
    /\ civil.y < 0
    /\ days.era < 0
    /\ days.value < 0

(***************************************************************************)
(* What a token denotes, as the claims below refer to it.                  *)
(***************************************************************************)
\* the number a decimal numeral denotes
RECURSIVE RefDecVal(_)
RefDecVal(tok) ==
    IF tok = <<>> THEN 0
    ELSE RefDecVal(SubSeq(tok, 1, Len(tok) - 1)) * 10 + DigitVal(tok[Len(tok)])

\* the numerals of n digits
Numerals(n) == [1..n -> {DigitChars[i] : i \in 1..10}]

\* the hours of the named zones
RefZoneHours(z) ==
    CASE z = <<"E","S","T">> -> 0 - 5
      [] z = <<"E","D","T">> -> 0 - 4
      [] z = <<"C","S","T">> -> 0 - 6
      [] z = <<"C","D","T">> -> 0 - 5
      [] z = <<"M","S","T">> -> 0 - 7
      [] z = <<"M","D","T">> -> 0 - 6
      [] z = <<"P","S","T">> -> 0 - 8
      [] z = <<"P","D","T">> -> 0 - 7
      [] z = <<"A">> -> 0 - 1
      [] z = <<"M">> -> 0 - 12
      [] z = <<"N">> -> 1
      [] z = <<"Y">> -> 12
      [] z \in {<<"U","T">>, <<"G","M","T">>, <<"Z">>} -> 0

\* the minutes a zone token denotes: s(HH*60 + MM), or 60 times the table
RefZoneMinutes(z) ==
    IF z[1] \in {"+", "-"}
    THEN (IF z[1] = "-" THEN 0 - 1 ELSE 1)
         * (RefDecVal(SubSeq(z, 2, 3)) * 60 + RefDecVal(SubSeq(z, 4, 5)))
    ELSE 60 * RefZoneHours(z)

(***************************************************************************)
(* One stamp with every year token of two to four digits.                  *)
(***************************************************************************)
InitYear ==
    \E n \in MinYearDigits..MaxYearDigits : \E year \in Numerals(n) :
        MainStarts(Plain(Fmt2(1), months[1], year, Fmt2(0), Fmt2(0),
                         <<":">> \o Fmt2(0), <<"G","M","T">>),
                   SampleStamp2)

SpecYear == InitYear /\ [][Next]_vars

\* C4: a two-digit year token decodes to its value plus 2000, a four-digit
\* year token to its value.
C4_YearDecoding ==
    parsed[1].present =>
        /\ Len(src[1].year) = 2
             => parsed[1].dateTime.year = RefDecVal(src[1].year) + 2000
        /\ Len(src[1].year) = 4
             => parsed[1].dateTime.year = RefDecVal(src[1].year)

(***************************************************************************)
(* One stamp with every zone token of the grammar.                         *)
(***************************************************************************)
ZoneTokens ==
    NamedZones \cup {<<s>> \o n : s \in {"+", "-"}, n \in Numerals(DiffDigits)}

InitZone ==
    \E zone \in ZoneTokens :
        MainStarts(Plain(Fmt2(7), months[10], Fmt4(2014), Fmt2(10), Fmt2(10),
                         <<":">> \o Fmt2(5), zone),
                   SampleStamp2)

SpecZone == InitZone /\ [][Next]_vars

\* C5: the decoded differential of a numeric zone sHHMM is s(HH*60 + MM)
\* minutes, and that of a named zone is 60 times its hours in the table.
C5_ZoneDecoding ==
    pc # "parse1" =>
        /\ parsed[1].present
        /\ parsed[1].dateTime.timeZoneDifferential = RefZoneMinutes(src[1].zone)

\* "-0530" has been decoded to -330 minutes
C5_Witness ==
    /\ pc = "done"
    /\ src[1].zone = <<"-", "0", "5", "3", "0">>
    /\ parsed[1].present
    /\ parsed[1].dateTime.timeZoneDifferential = 0 - 330

(***************************************************************************)
(* What the pieces of a stamp denote.                                      *)
(***************************************************************************)
RefMonth(tok) == CHOOSE i \in 1..12 : months[i] = tok

\* two-digit years are of the 21st century
RefYear(tok) == IF Len(tok) = 2 THEN RefDecVal(tok) + 2000 ELSE RefDecVal(tok)

RefCivil(p) ==
    [y |-> RefYear(p.year), m |-> RefMonth(p.month), d |-> RefDecVal(p.day)]

RefTimeInRange(p) ==
    /\ RefDecVal(p.hour) \in 0..23
    /\ RefDecVal(p.minute) \in 0..59
    /\ p.sec # <<>> => RefDecVal(Tail(p.sec)) \in 0..59

\* 1970-01-01 was a Thursday; 1 is Monday and 7 Sunday, as in DayOfWeekNames
RefWeekday(c) == ((RefDaysSinceEpoch(c) + 3) % 7) + 1

\* the optional seconds: none when n < 0
SecPiece(n) == IF n < 0 THEN <<>> ELSE <<":">> \o Fmt2(n)

(***************************************************************************)
(* The last days of February and March over a range of years.              *)
(***************************************************************************)
LeapYearFirst == 1896
LeapYearLast == 2404

LeapTimes == {<<0, 0, 0>>, <<23, 59, 59>>, <<12, 30, 0 - 1>>}

InitLeap ==
    \E d \in {28, 29}, m \in {2, 3}, t \in LeapTimes :
    \E year \in {Fmt4(y) : y \in LeapYearFirst..LeapYearLast} \cup Numerals(2) :
        MainStarts(Plain(Fmt2(d), months[m], year, Fmt2(t[1]), Fmt2(t[2]),
                         SecPiece(t[3]), <<"G","M","T">>),
                   SampleStamp2)

SpecLeap == InitLeap /\ [][Next]_vars

\* C1: a stamp of 29 Feb Y with a time in range is parsed if and only if Y
\* is a leap year.
C1_Feb29IffLeap ==
    ( /\ pc # "parse1"
      /\ RefCivil(src[1]).d = 29
      /\ RefCivil(src[1]).m = 2
      /\ RefTimeInRange(src[1]) )
    => (parsed[1].present <=> RefIsLeap(RefCivil(src[1]).y))

(***************************************************************************)
(* Every day token of every month, in range and out of range.              *)
(***************************************************************************)
MaxDayNum == 32
MaxHourNum == 24
MaxMinuteNum == 60
MaxSecondNum == 60

DayTokens == {Fmt2(n) : n \in 0..MaxDayNum} \cup {<<DigitChars[i]>> : i \in 1..10}

DateYearTokens ==
    {Fmt4(1900), Fmt4(2000), Fmt4(2019), Fmt4(2020), Fmt4(2100), Fmt2(19), Fmt2(20)}

TimeCases ==
    {<<0, 0, 0 - 1>>, <<23, 59, 59>>, <<12, 30, 0>>}
    \cup {<<h, 0, 0>> : h \in 24..MaxHourNum}
    \cup {<<0, m, 0>> : m \in 60..MaxMinuteNum}
    \cup {<<0, 0, x>> : x \in 60..MaxSecondNum}

InitDate ==
    \E day \in DayTokens, m \in 1..12, year \in DateYearTokens, t \in TimeCases :
        MainStarts(Plain(day, months[m], year, Fmt2(t[1]), Fmt2(t[2]),
                         SecPiece(t[3]), <<"G","M","T">>),
                   SampleStamp2)

SpecDate == InitDate /\ [][Next]_vars

\* C2: a stamp of an existing calendar date with a time in range is parsed.
C2_ExistingDatesAccepted ==
    ( /\ pc # "parse1"
      /\ RefIsDate(RefCivil(src[1]))
      /\ RefTimeInRange(src[1]) )
    => parsed[1].present

\* C3: a result that is present holds an existing calendar date and a time
\* in range, and a stamp with a field out of range has no result.
C3_NoInvalidValue ==
    /\ parsed[1].present =>
         LET dt == parsed[1].dateTime
         IN  /\ dt.month \in 1..12
             /\ dt.day \in 1..RefDaysIn(dt.month, dt.year)
             /\ dt.hour \in 0..23
             /\ dt.minute \in 0..59
             /\ dt.second \in 0..59
    /\ ( /\ pc # "parse1"
         /\ ~(RefIsDate(RefCivil(src[1])) /\ RefTimeInRange(src[1])) )
       => ~parsed[1].present

\* "31 Apr 2020 23:59:59 GMT" has been parsed and has no result
C3_Witness ==
    /\ pc = "done"
    /\ RefCivil(src[1]) = [y |-> 2020, m |-> 4, d |-> 31]
    /\ RefTimeInRange(src[1])
    /\ ~parsed[1].present

(***************************************************************************)
(* Every day-of-week token on the dates of two years.                      *)
(***************************************************************************)
DowMaxDay == 28

InitDow ==
    \E dow \in DayOfWeekLits, d \in 1..DowMaxDay, m \in 1..12, y \in {2014, 2020} :
        MainStarts([Plain(Fmt2(d), months[m], Fmt4(y), Fmt2(10), Fmt2(10),
                          <<":">> \o Fmt2(5), <<"P","S","T">>)
                    EXCEPT !.dow = dow, !.sep0 = <<" ">>],
                   SampleStamp2)

SpecDow == InitDow /\ [][Next]_vars

\* C9: a stamp with a day of week is parsed only when the day of week is that
\* of its date.
C9_DayOfWeekChecked ==
    (parsed[1].present /\ src[1].dow # <<>>)
    => src[1].dow = Append(DayOfWeekNames[RefWeekday(RefCivil(src[1]))], ",")

(***************************************************************************)
(* Two stamps, on both sides of the last instant the clock can count.      *)
(***************************************************************************)
PairDays == {11, 23, 24}
PairMonths == {4, 11}
PairYears == {2020, 2262}
PairHours == {4, 23}
PairZones == {<<"U","T">>, <<"G","M","T">>, <<"P","S","T">>, <<"-">> \o Fmt4(500)}

PairStamps ==
    {Plain(Fmt2(d), months[m], Fmt4(y), Fmt2(h), Fmt2(0), <<":">> \o Fmt2(0), z) :
        d \in PairDays, m \in PairMonths, y \in PairYears, h \in PairHours,
        z \in PairZones}
    \cup {SampleStamp1, SampleStamp2}

InitPair == \E p1, p2 \in PairStamps : MainStarts(p1, p2)

SpecPair == InitPair /\ [][Next]_vars

\* x - y leaves the 64-bit range
RefSubOverflows(x, y) ==
    /\ I64IsNeg(x) # I64IsNeg(y)
    /\ I64IsNeg(I64Sub(x, y)) # I64IsNeg(x)

\* the instant t2 is the instant t1 minus d minutes
RefIsShifted(t1, t2, d) ==
    /\ t2 = I64Sub(t1, MinutesToClock(I64(d)))
    /\ ~RefSubOverflows(t1, MinutesToClock(I64(d)))

CivilFields(dt) == <<dt.day, dt.month, dt.year, dt.hour, dt.minute, dt.second>>

\* C6: of two results of stamps that differ in the zone only, the first
\* labelled UT, the instant of the second is that of the first minus the
\* differential of the second, and the civil fields are the same.
C6_ZoneShiftsInstant ==
    ( /\ pc = "done"
      /\ parsed[1].present /\ parsed[2].present
      /\ src[1].zone = <<"U","T">>
      /\ src[2] = [src[1] EXCEPT !.zone = src[2].zone] )
    => /\ RefIsShifted(parsed[1].time, parsed[2].time,
                       parsed[2].dateTime.timeZoneDifferential)
       /\ CivilFields(parsed[1].dateTime) = CivilFields(parsed[2].dateTime)

\* the moment a civil date and time with a differential denotes: the hours
\* since 1970-01-01 00:00 UT, the minute and the second
RefMoment(dt) ==
    LET m == dt.minute - dt.timeZoneDifferential
    IN  <<24 * RefDaysSinceEpoch([y |-> dt.year, m |-> dt.month, d |-> dt.day])
            + dt.hour + (m \div 60),
          m % 60,
          dt.second>>

RefBefore(a, b) ==
    \/ a[1] < b[1]
    \/ a[1] = b[1] /\ a[2] < b[2]
    \/ a[1] = b[1] /\ a[2] = b[2] /\ a[3] < b[3]

\* C7: the comparison of two results is the chronological order of the
\* moments they denote, and exactly one of <, == and > holds.
C7_OrderIsChronological ==
    cmp.compared =>
        LET a == RefMoment(parsed[1].dateTime)
            b == RefMoment(parsed[2].dateTime)
        IN  /\ cmp.lt <=> RefBefore(a, b)
            /\ cmp.eq <=> a = b
            /\ cmp.gt <=> RefBefore(b, a)
            /\ cmp.le <=> ~RefBefore(b, a)
            /\ cmp.ge <=> ~RefBefore(a, b)
            /\ Cardinality({k \in {"lt", "eq", "gt"} : cmp[k]}) = 1

(***************************************************************************)
(* Stamps that depart from a conforming one in a few pieces.               *)
(***************************************************************************)
MaxDeviations == 2

Separators == {<<>>, <<" ">>, <<"\t">>, <<"\n">>, <<VerticalTab>>, <<" ", " ">>}

Variants ==
    [pre    |-> {<<>>, <<" ">>, <<"x">>},
     dow    |-> {<<>>, <<"T","u","e",",">>, <<"T","u","e">>, <<"t","u","e",",">>},
     sep0   |-> Separators,
     day    |-> {<<"7">>, <<"0","7">>, <<>>, <<"1","2","3">>},
     sep1   |-> Separators,
     month  |-> {months[10], <<"o","c","t">>, <<"O","c">>, <<"O","c","t","o">>},
     sep2   |-> Separators,
     year   |-> {Fmt4(2014), Fmt2(14), <<"1">>, <<"2","0","1">>, <<"2","0","1","4","5">>},
     sep3   |-> Separators,
     hour   |-> {Fmt2(10), <<"1">>, <<"1","0","0">>},
     colon  |-> {<<":">>, <<" ">>, <<>>},
     minute |-> {Fmt2(10), <<"1">>},
     sec    |-> {<<>>, <<":","0","5">>, <<":","5">>, <<":","0","0","5">>, <<"0","5">>},
     sep4   |-> Separators,
     zone   |-> {<<"P","S","T">>, <<"M">>, <<"+">> \o Fmt4(500), <<"J">>,
                 <<"p","s","t">>, <<"+","5","0","0">>, Fmt4(500),
                 <<"+","0","5","0","0","0">>, <<>>},
     post   |-> {<<>>, <<"\n">>, <<" ">>, <<"x">>}]

PieceNames == DOMAIN Variants

\* the stamps that differ from p in one piece, and p
OneAway(p) == UNION {{[p EXCEPT ![f] = v] : v \in Variants[f]} : f \in PieceNames}

RECURSIVE Deviating(_)
Deviating(n) ==
    IF n = 0 THEN {SampleStamp2}
    ELSE UNION {OneAway(p) : p \in Deviating(n - 1)}

InitGrammar == \E p \in Deviating(MaxDeviations) : MainStarts(p, SampleStamp2)

SpecGrammar == InitGrammar /\ [][Next]_vars

RefAllIn(s, chars) == \A i \in 1..Len(s) : s[i] \in chars

RefDigits == {DigitChars[i] : i \in 1..10}

RefWhitespace == {" ", "\t", "\n", "\r", "\f", VerticalTab}

\* the characters of s after the first i and up to the j-th
RefCut(s, i, j) == SubSeq(s, i + 1, j)

RefIsNumeral(s, i, j) == j <= Len(s) /\ RefAllIn(RefCut(s, i, j), RefDigits)

RefIsZone(z) ==
    \/ z \in NamedZones
    \/ Len(z) = 5 /\ z[1] \in {"+", "-"} /\ RefAllIn(Tail(z), RefDigits)

\* s can be cut into the fields of the grammar: an optional day of week with
\* its comma, the day, the month, the year, the time and the zone, in that
\* order and with nothing after the zone.  lead are the characters that may
\* precede the day when there is no day of week, ws the characters that
\* separate the fields.
RefGrammar(s, lead, ws) ==
    \E c1 \in {0, 4} :
      /\ c1 = 4 => (4 <= Len(s) /\ RefCut(s, 0, 4) \in DayOfWeekLits)
      /\ \E c2 \in c1..Len(s) :
           /\ RefAllIn(RefCut(s, c1, c2), IF c1 = 0 THEN lead ELSE RefWhitespace)
           /\ \E c3 \in (c2 + 1)..(c2 + 2) :
                /\ RefIsNumeral(s, c2, c3)
                /\ \E c4 \in (c3 + 1)..Len(s) :
                     /\ RefAllIn(RefCut(s, c3, c4), ws)
                     /\ c4 + 3 <= Len(s)
                     /\ RefCut(s, c4, c4 + 3) \in MonthLits
                     /\ \E c5 \in (c4 + 4)..Len(s) :
                          /\ RefAllIn(RefCut(s, c4 + 3, c5), ws)
                          /\ \E c6 \in (c5 + 2)..(c5 + 4) :
                               /\ RefIsNumeral(s, c5, c6)
                               /\ \E c7 \in (c6 + 1)..Len(s) :
                                    /\ RefAllIn(RefCut(s, c6, c7), ws)
                                    /\ RefIsNumeral(s, c7, c7 + 2)
                                    /\ c7 + 5 <= Len(s)
                                    /\ s[c7 + 3] = ":"
                                    /\ RefIsNumeral(s, c7 + 3, c7 + 5)
                                    /\ \E c8 \in {c7 + 5, c7 + 8} :
                                         /\ c8 = c7 + 8 =>
                                              /\ c8 <= Len(s)
                                              /\ s[c7 + 6] = ":"
                                              /\ RefIsNumeral(s, c7 + 6, c8)
                                         /\ \E c9 \in (c8 + 1)..Len(s) :
                                              /\ RefAllIn(RefCut(s, c8, c9), ws)
                                              /\ RefIsZone(RefCut(s, c9, Len(s)))

\* the grammar as stated: nothing before the first field, optional
\* whitespace after the comma of the day of week, spaces between the fields
RefConformsAsStated(s) == RefGrammar(s, {}, {" "})

\* the grammar with any whitespace between the fields, and before the day
\* whether or not a day of week precedes it
RefConforms(s) == RefGrammar(s, RefWhitespace, RefWhitespace)

\* C8 as stated: only a stamp that conforms to the grammar, with spaces as
\* the separators and nothing before the first field, has a result.
C8_OnlyAsStated == parsed[1].present => RefConformsAsStated(stamp[1])

\* C8 as amended: only a stamp that conforms to the grammar, with any
\* whitespace as the separators and optional whitespace before the day, has a
\* result.
C8_OnlyConforming == parsed[1].present => RefConforms(stamp[1])

\* a stamp with a tab between day and month has a result, and so has one
\* that starts with a space
C8_Witness ==
    /\ pc = "done"
    /\ parsed[1].present
    /\ \/ src[1].sep1 = <<"\t">>
       \/ src[1].dow = <<>> /\ src[1].pre = <<" ">>

====
